---- MODULE Spec2Model ----
(***************************************************************************)
(* Model of src/hooks/create-workspace-member.js: the Auth0                *)
(* post-change-password hook createWorkspaceMember(user, context, cb).     *)
(*                                                                         *)
(* One behaviour follows one user of the tenant.  The hook is invoked up   *)
(* to MaxInvocations times for that user; every await of the async         *)
(* function is a point where an invocation is suspended and another one    *)
(* (or the inviting side) may run.  An action is the code that runs        *)
(* between two awaits: it consumes the answer of the pending outbound call *)
(* and runs up to the next await, to a return, or to the callback.         *)
(***************************************************************************)
EXTENDS Integers, Sequences, FiniteSets, TLC

VARIABLES user, remoteUser, members, settings,
          pc, app_metadata, token, log, cbCalls

vars == <<user, remoteUser, members, settings,
          pc, app_metadata, token, log, cbCalls>>

(***************************************************************************)
(* Bounds.                                                                 *)
(***************************************************************************)
MaxInvocations == 2

Invocations == 1..MaxInvocations

(***************************************************************************)
(* JavaScript values, as far as the hook looks at them: a value is its     *)
(* type and its string form.                                               *)
(***************************************************************************)
Undefined == [t |-> "undefined", v |-> "undefined"]

JsBool(b) == [t |-> "boolean", v |-> IF b THEN "true" ELSE "false"]

JsStr(s) == [t |-> "string", v |-> s]

\* variant: only the boolean false counts as "no invite"
TruthyUnlessFalse(x) == x # JsBool(FALSE)

\* !x is false exactly for the truthy values (line 140)
Truthy(x) == ~(x = Undefined \/ x = JsBool(FALSE) \/ x = JsStr(""))

\* `${x}` in a template literal (lines 65, 70)
TemplateStr(x) == x.v

\* an object is a function from its own keys to values; o.k of a key the
\* object does not have is undefined
EmptyObject == [k \in {} |-> Undefined]

Get(o, k) == IF k \in DOMAIN o THEN o[k] ELSE Undefined

(***************************************************************************)
(* Inputs: the webtask secrets, the triggering user, the user record the   *)
(* management API holds, and the answers of the three remote parties.      *)
(***************************************************************************)
secrets ==
  [AUTH0_DOMAIN |-> "upstandfm.eu.auth0.com",
   ACCOUNT_CLIENT_ID |-> "account-id",
   ACCOUNT_CLIENT_SECRET |-> "account-secret",
   CREATE_WORKSPACE_MEMBER_CLIENT_ID |-> "member-id",
   CREATE_WORKSPACE_MEMBER_CLIENT_SECRET |-> "member-secret",
   AUDIENCE |-> "https://api.upstand.fm",
   TOKEN_ENDPOINT |-> "https://upstandfm.eu.auth0.com/oauth/token"]

\* the workspace of a later invite
Workspaces == {"w2"}

\* what the inviting side stores when it invites the user to a workspace
InviteMetadata(w) ==
  [isUserInvite |-> JsBool(TRUE), workspaceId |-> JsStr(w),
   inviteMsg |-> JsStr("join us")]

\* the triggering user and the record the hook may find for that user:
\* without app_metadata, with the flag absent, false, true, or a truthy
\* non-boolean, and with a key the hook knows nothing of
InitialCases ==
  { [user |-> [id |-> "abc123", email |-> "a@upstand.fm"],
     record |-> [has |-> FALSE, app_metadata |-> EmptyObject]],
    [user |-> [id |-> "7", email |-> "b@upstand.fm"],
     record |-> [has |-> TRUE, app_metadata |-> [workspaceId |-> JsStr("w1")]]],
    [user |-> [id |-> "", email |-> "a@upstand.fm"],
     record |-> [has |-> TRUE, app_metadata |->
       [isUserInvite |-> JsBool(FALSE), workspaceId |-> JsStr("w1"),
        inviteMsg |-> JsStr("")]]],
    [user |-> [id |-> "abc123", email |-> "a@upstand.fm"],
     record |-> [has |-> TRUE, app_metadata |-> InviteMetadata("w1")]],
    [user |-> [id |-> "7", email |-> "b@upstand.fm"],
     record |-> [has |-> TRUE, app_metadata |-> InviteMetadata("w1")]],
    [user |-> [id |-> "", email |-> "b@upstand.fm"],
     record |-> [has |-> TRUE, app_metadata |->
       [isUserInvite |-> JsStr("yes"), workspaceId |-> JsStr("w2"),
        inviteMsg |-> JsStr("join us"), plan |-> JsStr("free")]]] }

\* HTTP statuses the token endpoint and the member endpoint answer with
TokenStatuses == {200, 401}

MemberStatuses == {200, 500}

\* variants: only the 5xx statuses count as a refusal; any status from 200
\* on counts as success
OkBelow500(status) == status >= 200 /\ status < 500

OkFrom200(status) == status >= 200

\* variant: the check of res.ok left out
OkAlways(status) == TRUE

\* res.ok of node-fetch
Ok(status) == status >= 200 /\ status <= 299

\* the access_token member of the token endpoint's JSON answer
Tokens == {JsStr("t1"), JsStr("t2")}

\* rejections of the management client, of fetch itself, of res.json(),
\* and an exception raised by the host's callback
GetUserErrors == {[name |-> "APIError", message |-> "Not Found"]}

UpdateErrors == {[name |-> "APIError", message |-> "Too Many Requests"]}

NetworkError == [name |-> "FetchError", message |-> "request failed"]

InvalidJson == [name |-> "FetchError", message |-> "invalid json response body"]

CallbackThrew == [name |-> "Error", message |-> "callback threw"]

(***************************************************************************)
(* The values the code builds.                                             *)
(***************************************************************************)
\* variant: the raw identifier, without the prefix
userIdRaw == user.id

\* line 129
userId == "auth0|" \o user.id

\* variant: the message of line 81 copied to line 47
TokenErrorCopied == [name |-> "Error", message |-> "Failed to create workspace member"]

\* line 47
TokenError == [name |-> "Error", message |-> "Failed to fetch token"]

\* line 81
MemberError == [name |-> "Error", message |-> "Failed to create workspace member"]

\* variants: the flag left set; the workspace cleared as well
newAppMetadataFlagKept == [isUserInvite |-> JsBool(TRUE), inviteMsg |-> JsStr("")]

newAppMetadataWithWorkspace ==
  [isUserInvite |-> JsBool(FALSE), inviteMsg |-> JsStr(""),
   workspaceId |-> JsStr("")]

\* lines 154-157
newAppMetadata == [isUserInvite |-> JsBool(FALSE), inviteMsg |-> JsStr("")]

\* JSON.stringify of a string without characters to escape
JsonString(s) == "\"" \o s \o "\""

\* lines 32-43: the options of the token request
TokenBody(sec) ==
  "{\"client_id\":" \o JsonString(sec.CREATE_WORKSPACE_MEMBER_CLIENT_ID)
  \o ",\"client_secret\":" \o JsonString(sec.CREATE_WORKSPACE_MEMBER_CLIENT_SECRET)
  \o ",\"audience\":" \o JsonString(sec.AUDIENCE)
  \o ",\"grant_type\":" \o JsonString("client_credentials") \o "}"

TokenRequest(sec) ==
  [url |-> sec.TOKEN_ENDPOINT, method |-> "POST", body |-> TokenBody(sec)]

\* lines 72-76
MemberBody(uid, email) ==
  "{\"userId\":" \o JsonString(uid)
  \o ",\"email\":" \o JsonString(email)
  \o ",\"fullName\":" \o JsonString("User") \o "}"

\* variant: the token and the workspace identifier taken for each other
MemberRequestSwapped(tok, workspaceId, uid, email) ==
  [url |-> "https://api.upstand.fm/workspaces/" \o TemplateStr(tok)
             \o "/members",
   method |-> "POST",
   authorization |-> "Bearer " \o TemplateStr(workspaceId),
   body |-> MemberBody(uid, email)]

\* lines 65-77: the url and options of the member request
MemberRequest(tok, workspaceId, uid, email) ==
  [url |-> "https://api.upstand.fm/workspaces/" \o TemplateStr(workspaceId)
             \o "/members",
   method |-> "POST",
   authorization |-> "Bearer " \o TemplateStr(tok),
   body |-> MemberBody(uid, email)]

\* line 134 and line 161: the arguments of the two management calls
GetUserRequest(uid) == [id |-> uid]

UpdateRequest(uid, metadata) == [id |-> uid, metadata |-> metadata]

\* line 133: const { app_metadata = {} } = <the user record>
Destructure(record) ==
  IF record.has THEN record.app_metadata ELSE EmptyObject

(***************************************************************************)
(* The remote parties.                                                     *)
(***************************************************************************)
\* PATCH /users/{id} merges the first-level keys of app_metadata
\* (the comment of lines 149-153)
Merge(old, new) ==
  [k \in DOMAIN old \cup DOMAIN new |->
     IF k \in DOMAIN new THEN new[k] ELSE old[k]]

Patched(record, metadata) ==
  [has |-> TRUE, app_metadata |-> Merge(record.app_metadata, metadata)]

\* the member the workspace API creates for a member request
Member(request) == [url |-> request.url, body |-> request.body]

(***************************************************************************)
(* The log of an invocation: its outbound calls and their outcomes, in     *)
(* the order they happened.                                                *)
(***************************************************************************)
Event(call, phase, data) == [call |-> call, phase |-> phase, data |-> data]

Terminated(i) == pc[i] \in {"returned", "done", "failed"}

(***************************************************************************)
(* Initial state: a user, the record the management API holds for that     *)
(* user, and no invocation yet.  settings counts how often the invite flag *)
(* was set on the record, the record's initial state included.             *)
(***************************************************************************)
Init ==
  /\ \E case \in InitialCases : user = case.user /\ remoteUser = case.record
  /\ members = <<>>
  /\ settings = IF Truthy(Get(remoteUser.app_metadata, "isUserInvite")) THEN 1 ELSE 0
  /\ pc = [i \in Invocations |-> "idle"]
  /\ app_metadata = [i \in Invocations |-> EmptyObject]
  /\ token = [i \in Invocations |-> Undefined]
  /\ log = [i \in Invocations |-> <<>>]
  /\ cbCalls = [i \in Invocations |-> <<>>]

(***************************************************************************)
(* The catch block, lines 164-166: the completion callback gets the error. *)
(***************************************************************************)
\* variant: cb() in the catch block
CatchWithoutError(calls, err) == Append(calls, Undefined)

Catch(calls, err) == Append(calls, err)

\* line 163: cb() gets no argument; when the host's callback raises, the
\* exception is raised inside the try block and the catch block runs
Complete(calls, raises) ==
  IF raises THEN Catch(Append(calls, Undefined), CallbackThrew)
  ELSE Append(calls, Undefined)

(***************************************************************************)
(* The host invokes the hook (lines 108-135): the code runs up to the      *)
(* await of getUser.  Invocations are numbered in the order the host       *)
(* starts them.                                                            *)
(***************************************************************************)
Invoke(i) ==
  /\ pc[i] = "idle"
  /\ \A j \in Invocations : j < i => pc[j] /= "idle"
  /\ pc' = [pc EXCEPT ![i] = "getUser"]
  /\ log' = [log EXCEPT ![i] =
               Append(@, Event("getUser", "request", GetUserRequest(userId)))]
  /\ UNCHANGED <<user, remoteUser, members, settings, app_metadata, token,
                 cbCalls>>

\* line 144: _getToken(secrets) runs up to its await of fetch (line 44)
IssueTokenFetch(l) ==
  Append(l, Event("fetchToken", "request", TokenRequest(secrets)))

\* lines 140-144 after the user record arrived: the no-op return, or the
\* call of _getToken
AfterGetUser(i, metadata) ==
  IF ~Truthy(Get(metadata, "isUserInvite"))
  THEN /\ pc' = [pc EXCEPT ![i] = "returned"]
       /\ log' = [log EXCEPT ![i] =
                    Append(@, Event("getUser", "resolved", metadata))]
       /\ UNCHANGED cbCalls
  ELSE /\ pc' = [pc EXCEPT ![i] = "_getToken"]
       /\ log' = [log EXCEPT ![i] =
                    IssueTokenFetch(Append(@, Event("getUser", "resolved", metadata)))]
       /\ UNCHANGED cbCalls

\* line 133: getUser resolves with the user record of that moment
GetUserResolved(i) ==
  /\ pc[i] = "getUser"
  /\ app_metadata' = [app_metadata EXCEPT ![i] = Destructure(remoteUser)]
  /\ AfterGetUser(i, Destructure(remoteUser))
  /\ UNCHANGED <<user, remoteUser, members, settings, token>>

\* line 133: getUser rejects
GetUserRejected(i) ==
  /\ pc[i] = "getUser"
  /\ \E err \in GetUserErrors :
       /\ log' = [log EXCEPT ![i] = Append(@, Event("getUser", "rejected", err))]
       /\ cbCalls' = [cbCalls EXCEPT ![i] = Catch(@, err)]
  /\ pc' = [pc EXCEPT ![i] = "failed"]
  /\ UNCHANGED <<user, remoteUser, members, settings, app_metadata, token>>

(***************************************************************************)
(* _getToken, lines 44-51, and the call of _createMember up to its await   *)
(* of fetch (lines 145, 64-78).                                            *)
(***************************************************************************)
\* the JSON bodies an endpoint answers with: one res.json() cannot parse,
\* or an object (with the access_token, for the token endpoint)
TokenBodies ==
  {[valid |-> FALSE, access_token |-> Undefined]}
    \cup {[valid |-> TRUE, access_token |-> t] : t \in Tokens}

\* variant: the token kept in a variable the invocations share, so that
\* _createMember gets the token an earlier fetch stored there
IssueCreateMemberSharedToken(l, tok, metadata) ==
  LET holders == {j \in Invocations : token[j] # Undefined}
      shared == IF holders = {} THEN tok
                ELSE token[CHOOSE j \in holders : \A h \in holders : j <= h]
  IN Append(l, Event("createMember", "request",
                     MemberRequest(shared, Get(metadata, "workspaceId"),
                                   userId, user.email)))

\* variant: _createMember called a second time
IssueCreateMemberTwice(l, tok, metadata) ==
  Append(Append(l, Event("createMember", "request",
                         MemberRequest(tok, Get(metadata, "workspaceId"),
                                       userId, user.email))),
         Event("createMember", "request",
               MemberRequest(tok, Get(metadata, "workspaceId"),
                             userId, user.email)))

\* variant: _createMember called without await, so that line 161 runs at once
IssueCreateMemberNoAwait(l, tok, metadata) ==
  Append(Append(l, Event("createMember", "request",
                         MemberRequest(tok, Get(metadata, "workspaceId"),
                                       userId, user.email))),
         Event("updateAppMetadata", "request",
               UpdateRequest(userId, newAppMetadata)))

\* line 145: _createMember(token, app_metadata.workspaceId, userId,
\* user.email) runs up to its await of fetch (line 78)
IssueCreateMember(l, tok, metadata) ==
  Append(l, Event("createMember", "request",
                  MemberRequest(tok, Get(metadata, "workspaceId"),
                                userId, user.email)))

\* lines 46-51 and 145: the token endpoint answered
AfterTokenResponse(i, status, body) ==
  IF ~Ok(status)
  THEN /\ cbCalls' = [cbCalls EXCEPT ![i] = Catch(@, TokenError)]
       /\ pc' = [pc EXCEPT ![i] = "failed"]
       /\ log' = [log EXCEPT ![i] =
                    Append(@, Event("fetchToken", "resolved", [status |-> status]))]
       /\ UNCHANGED token
  ELSE IF ~body.valid
  THEN /\ cbCalls' = [cbCalls EXCEPT ![i] = Catch(@, InvalidJson)]
       /\ pc' = [pc EXCEPT ![i] = "failed"]
       /\ log' = [log EXCEPT ![i] =
                    Append(Append(@, Event("fetchToken", "resolved", [status |-> status])),
                           Event("fetchToken", "json rejected", InvalidJson))]
       /\ UNCHANGED token
  ELSE /\ token' = [token EXCEPT ![i] = body.access_token]
       /\ pc' = [pc EXCEPT ![i] = "_createMember"]
       /\ log' = [log EXCEPT ![i] =
                    IssueCreateMember(
                      Append(Append(@, Event("fetchToken", "resolved", [status |-> status])),
                             Event("fetchToken", "json", body.access_token)),
                      body.access_token, app_metadata[i])]
       /\ UNCHANGED cbCalls

FetchTokenResponded(i) ==
  /\ pc[i] = "_getToken"
  /\ \E status \in TokenStatuses, body \in TokenBodies :
       AfterTokenResponse(i, status, body)
  /\ UNCHANGED <<user, remoteUser, members, settings, app_metadata>>

\* line 44: fetch itself rejects
FetchTokenRejected(i) ==
  /\ pc[i] = "_getToken"
  /\ log' = [log EXCEPT ![i] =
               Append(@, Event("fetchToken", "rejected", NetworkError))]
  /\ cbCalls' = [cbCalls EXCEPT ![i] = Catch(@, NetworkError)]
  /\ pc' = [pc EXCEPT ![i] = "failed"]
  /\ UNCHANGED <<user, remoteUser, members, settings, app_metadata, token>>

(***************************************************************************)
(* _createMember, lines 78-84, and lines 154-161 up to the await of        *)
(* updateAppMetadata.                                                      *)
(***************************************************************************)
\* the request of invocation i that is waiting for its answer
PendingRequest(i) == log[i][Len(log[i])].data

\* variant: the update of line 161 left out
IssueUpdateForgotten(l) == l

\* line 161: updateAppMetadata({ id: userId }, newAppMetadata) is called
IssueUpdate(l) ==
  Append(l, Event("updateAppMetadata", "request",
                  UpdateRequest(userId, newAppMetadata)))

\* lines 80-84 and 154-161: the member endpoint answered
AfterMemberResponse(i, status, valid) ==
  IF ~Ok(status)
  THEN /\ cbCalls' = [cbCalls EXCEPT ![i] = Catch(@, MemberError)]
       /\ pc' = [pc EXCEPT ![i] = "failed"]
       /\ log' = [log EXCEPT ![i] =
                    Append(@, Event("createMember", "resolved", [status |-> status]))]
  ELSE IF ~valid
  THEN /\ cbCalls' = [cbCalls EXCEPT ![i] = Catch(@, InvalidJson)]
       /\ pc' = [pc EXCEPT ![i] = "failed"]
       /\ log' = [log EXCEPT ![i] =
                    Append(Append(@, Event("createMember", "resolved", [status |-> status])),
                           Event("createMember", "json rejected", InvalidJson))]
  ELSE /\ pc' = [pc EXCEPT ![i] = "updateAppMetadata"]
       /\ log' = [log EXCEPT ![i] =
                    IssueUpdate(
                      Append(Append(@, Event("createMember", "resolved", [status |-> status])),
                             Event("createMember", "json", Undefined)))]
       /\ UNCHANGED cbCalls

\* the workspace API creates the member exactly when it answers with success
CreateMemberResponded(i) ==
  /\ pc[i] = "_createMember"
  /\ \E status \in MemberStatuses, valid \in BOOLEAN :
       /\ members' = IF Ok(status) THEN Append(members, Member(PendingRequest(i)))
                     ELSE members
       /\ AfterMemberResponse(i, status, valid)
  /\ UNCHANGED <<user, remoteUser, settings, app_metadata, token>>

\* line 78: fetch itself rejects
CreateMemberRejected(i) ==
  /\ pc[i] = "_createMember"
  /\ log' = [log EXCEPT ![i] =
               Append(@, Event("createMember", "rejected", NetworkError))]
  /\ cbCalls' = [cbCalls EXCEPT ![i] = Catch(@, NetworkError)]
  /\ pc' = [pc EXCEPT ![i] = "failed"]
  /\ UNCHANGED <<user, remoteUser, members, settings, app_metadata, token>>

(***************************************************************************)
(* Lines 161-163: updateAppMetadata answers, then cb().                    *)
(***************************************************************************)
UpdateResolved(i) ==
  /\ pc[i] = "updateAppMetadata"
  /\ remoteUser' = Patched(remoteUser, PendingRequest(i).metadata)
  /\ log' = [log EXCEPT ![i] =
               Append(@, Event("updateAppMetadata", "resolved", Undefined))]
  /\ \E raises \in BOOLEAN :
       cbCalls' = [cbCalls EXCEPT ![i] = Complete(@, raises)]
  /\ pc' = [pc EXCEPT ![i] = "done"]
  /\ UNCHANGED <<user, members, settings, app_metadata, token>>

UpdateRejected(i) ==
  /\ pc[i] = "updateAppMetadata"
  /\ \E err \in UpdateErrors :
       /\ log' = [log EXCEPT ![i] =
                    Append(@, Event("updateAppMetadata", "rejected", err))]
       /\ cbCalls' = [cbCalls EXCEPT ![i] = Catch(@, err)]
  /\ pc' = [pc EXCEPT ![i] = "failed"]
  /\ UNCHANGED <<user, remoteUser, members, settings, app_metadata, token>>

(***************************************************************************)
(* The inviting side invites the user, who has no invite pending, to a     *)
(* workspace: it sets the invite flag, the workspace and the message the   *)
(* hook reads (lines 137-140).                                             *)
(***************************************************************************)
SetInvite ==
  /\ ~Truthy(Get(remoteUser.app_metadata, "isUserInvite"))
  /\ \E w \in Workspaces : remoteUser' = Patched(remoteUser, InviteMetadata(w))
  /\ settings' = settings + 1
  /\ UNCHANGED <<user, members, pc, app_metadata, token, log, cbCalls>>

(***************************************************************************)
(* Specifications.  Spec lets the host run invocations concurrently;       *)
(* SeqSpec starts an invocation only when the ones before it are over.     *)
(***************************************************************************)
Step(i) ==
  \/ GetUserResolved(i)
  \/ GetUserRejected(i)
  \/ FetchTokenResponded(i)
  \/ FetchTokenRejected(i)
  \/ CreateMemberResponded(i)
  \/ CreateMemberRejected(i)
  \/ UpdateResolved(i)
  \/ UpdateRejected(i)

Next ==
  \/ \E i \in Invocations : Invoke(i)
  \/ \E i \in Invocations : Step(i)
  \/ SetInvite

Spec == Init /\ [][Next]_vars

InvokeAfterOthers(i) ==
  /\ \A j \in Invocations : j < i => Terminated(j)
  /\ Invoke(i)

SeqNext ==
  \/ \E i \in Invocations : InvokeAfterOthers(i)
  \/ \E i \in Invocations : Step(i)
  \/ SetInvite

SeqSpec == Init /\ [][SeqNext]_vars

\* every outbound call is answered in the end: the continuation of a
\* suspended invocation runs
FairSeqSpec == SeqSpec /\ \A i \in Invocations : WF_vars(Step(i))

(***************************************************************************)
(* Reading the log of an invocation.                                       *)
(***************************************************************************)
\* the positions of log l that hold an event of that call and phase
At(l, call, phase) ==
  {k \in 1..Len(l) : l[k].call = call /\ l[k].phase = phase}

Count(l, call, phase) == Cardinality(At(l, call, phase))

\* the calls and phases of a log, without the data
Shape(l) == [k \in 1..Len(l) |-> <<l[k].call, l[k].phase>>]

IsPrefix(a, b) == Len(a) <= Len(b) /\ a = SubSeq(b, 1, Len(a))

\* a 2xx status, spelled out
Success(status) == status \in 200..299

\* the metadata read of invocation i returned an invite flag that is
\* true (truthy) / false or absent
ReadInvite(i) ==
  \E k \in At(log[i], "getUser", "resolved") :
    log[i][k].data # EmptyObject /\ "isUserInvite" \in DOMAIN log[i][k].data
    /\ log[i][k].data.isUserInvite \notin {JsBool(FALSE), JsStr(""), Undefined}

ReadNoInvite(i) ==
  \E k \in At(log[i], "getUser", "resolved") :
    \/ "isUserInvite" \notin DOMAIN log[i][k].data
    \/ log[i][k].data.isUserInvite \in {JsBool(FALSE), JsStr(""), Undefined}

\* the token / member endpoint answered invocation i with a non-success status
TokenRefused(i) ==
  \E k \in At(log[i], "fetchToken", "resolved") : ~Success(log[i][k].data.status)

MemberRefused(i) ==
  \E k \in At(log[i], "createMember", "resolved") : ~Success(log[i][k].data.status)

\* an outbound call of invocation i failed
SomeCallFailed(i) ==
  \/ TokenRefused(i)
  \/ MemberRefused(i)
  \/ \E k \in 1..Len(log[i]) : log[i][k].phase \in {"rejected", "json rejected"}

\* no invocation after i has been started
Latest(i) == \A j \in Invocations : j > i => pc[j] = "idle"

RemoteFlag == Get(remoteUser.app_metadata, "isUserInvite")

(***************************************************************************)
(* C1.  When the metadata read succeeds and the invite flag is false or    *)
(* absent, the hook signals successful completion: the callback has been   *)
(* invoked, with no error, once the invocation is over.                    *)
(* The code returns at line 141 without invoking the callback.             *)
(***************************************************************************)
C1_NoInviteSignalsSuccess ==
  \A i \in Invocations :
    ReadNoInvite(i) /\ Terminated(i) => cbCalls[i] = <<Undefined>>

(***************************************************************************)
(* C2.  When the read returns a true invite flag and every outbound call   *)
(* succeeds, the invocation issues one token fetch, then one member        *)
(* creation, then one metadata replace, each call answered before the next *)
(* is issued, and invokes the callback with no error only after all that.  *)
(***************************************************************************)
SuccessShape ==
  << <<"getUser", "request">>, <<"getUser", "resolved">>,
     <<"fetchToken", "request">>, <<"fetchToken", "resolved">>,
     <<"fetchToken", "json">>,
     <<"createMember", "request">>, <<"createMember", "resolved">>,
     <<"createMember", "json">>,
     <<"updateAppMetadata", "request">>, <<"updateAppMetadata", "resolved">> >>

C2_InviteRunsStepsInOrder ==
  \A i \in Invocations :
    ReadInvite(i) /\ ~SomeCallFailed(i) =>
      /\ IsPrefix(Shape(log[i]), SuccessShape)
      /\ Len(log[i]) > 2
      /\ cbCalls[i] # <<>> <=> Shape(log[i]) = SuccessShape
      /\ cbCalls[i] # <<>> => cbCalls[i][1] = Undefined
      /\ Terminated(i) <=> Shape(log[i]) = SuccessShape

C2_Witness ==
  \E i \in Invocations :
    /\ pc[i] = "done"
    /\ Shape(log[i]) = SuccessShape
    /\ cbCalls[i] = <<Undefined>>

(***************************************************************************)
(* C3.  When the read returns an invite flag that is false or absent, the  *)
(* metadata read is the only outbound call of the invocation, and the      *)
(* invocation changes neither the remote user record nor the members.      *)
(***************************************************************************)
C3_NoInviteOnlyReads ==
  [][\A i \in Invocations :
       ReadNoInvite(i)' =>
         /\ Shape(log'[i]) = << <<"getUser", "request">>, <<"getUser", "resolved">> >>
         /\ log'[i] # log[i] => remoteUser' = remoteUser /\ members' = members]_vars

C3_Witness ==
  \E i \in Invocations :
    /\ pc[i] = "returned"
    /\ app_metadata[i] = EmptyObject
    /\ Len(log[i]) = 2
    /\ ~remoteUser.has

(***************************************************************************)
(* C4.  When the token endpoint answers with a non-success status, the     *)
(* invocation ends in failure: the callback is invoked once, with an       *)
(* error, after exactly one token fetch, and no member creation and no     *)
(* metadata replace is issued.                                             *)
(***************************************************************************)
C4_TokenRefusedFails ==
  \A i \in Invocations :
    TokenRefused(i) =>
      /\ pc[i] = "failed"
      /\ Len(cbCalls[i]) = 1
      /\ cbCalls[i][1] # Undefined
      /\ Count(log[i], "fetchToken", "request") = 1
      /\ Count(log[i], "createMember", "request") = 0
      /\ Count(log[i], "updateAppMetadata", "request") = 0

C4_Witness ==
  \E i \in Invocations :
    /\ \E k \in At(log[i], "fetchToken", "resolved") : log[i][k].data.status = 401
    /\ pc[i] = "failed"

(***************************************************************************)
(* C5.  When the member endpoint answers with a non-success status, the    *)
(* invocation ends in failure (the callback is invoked once, with an       *)
(* error), issues no metadata replace, and the invite flag of the remote   *)
(* user record is still set as long as no later invocation has started.    *)
(***************************************************************************)
C5_MemberRefusedFails ==
  \A i \in Invocations :
    MemberRefused(i) =>
      /\ pc[i] = "failed"
      /\ Len(cbCalls[i]) = 1
      /\ cbCalls[i][1] # Undefined
      /\ Count(log[i], "updateAppMetadata", "request") = 0
      /\ Latest(i) => RemoteFlag \notin {JsBool(FALSE), JsStr(""), Undefined}

C5_Witness ==
  \E i \in Invocations :
    /\ \E k \in At(log[i], "createMember", "resolved") : log[i][k].data.status = 500
    /\ pc[i] = "failed"
    /\ RemoteFlag = JsBool(TRUE)

(***************************************************************************)
(* C6.  The non-idempotent window.  When the metadata replace of           *)
(* invocation i is rejected after its member creation succeeded, the       *)
(* member exists and the invite flag is still set; the next invocation     *)
(* reads the flag as set and, once its token fetch succeeded, issues a     *)
(* member creation for the same user and workspace, so that the workspace  *)
(* API creates that member a second time when it answers with success.     *)
(***************************************************************************)
\* the member-creation request of invocation i
CreateRequest(i) ==
  log[i][CHOOSE k \in At(log[i], "createMember", "request") : TRUE].data

UpdateFailedAfterCreate(i) ==
  /\ At(log[i], "createMember", "json") # {}
  /\ At(log[i], "updateAppMetadata", "rejected") # {}

Copies(m) == Cardinality({k \in 1..Len(members) : members[k] = m})

C6_NonIdempotentWindow ==
  \A i \in Invocations :
    UpdateFailedAfterCreate(i) =>
      /\ Copies([url |-> CreateRequest(i).url, body |-> CreateRequest(i).body]) >= 1
      /\ Latest(i) => RemoteFlag \notin {JsBool(FALSE), JsStr(""), Undefined}
      /\ \A j \in Invocations :
           j = i + 1 /\ At(log[j], "getUser", "resolved") # {} =>
             /\ ReadInvite(j)
             /\ Count(log[j], "fetchToken", "request") = 1
             /\ At(log[j], "fetchToken", "json") # {} =>
                  /\ Count(log[j], "createMember", "request") = 1
                  /\ CreateRequest(j).url = CreateRequest(i).url
                  /\ CreateRequest(j).body = CreateRequest(i).body
             /\ At(log[j], "createMember", "json") # {} =>
                  Copies([url |-> CreateRequest(i).url,
                          body |-> CreateRequest(i).body]) >= 2

C6_Witness ==
  \E i, j \in Invocations :
    /\ j = i + 1
    /\ UpdateFailedAfterCreate(i)
    /\ At(log[j], "createMember", "json") # {}
    /\ token[i] # token[j]
    /\ Len(members) = 2 /\ members[1] = members[2]

Creations(i) == Count(log[i], "createMember", "request")

RECURSIVE Sum(_, _)
Sum(f, S) ==
  IF S = {} THEN 0
  ELSE LET x == CHOOSE y \in S : TRUE IN f[x] + Sum(f, S \ {x})

C8_OneCreationPerSetting ==
  [][/\ \A i \in Invocations :
          pc[i] = "updateAppMetadata" /\ pc'[i] = "done" =>
            /\ Creations(i) = 1
            /\ Get(remoteUser'.app_metadata, "isUserInvite") = JsBool(FALSE)
            /\ Get(remoteUser'.app_metadata, "inviteMsg") = JsStr("")
     /\ \A j \in Invocations :
          /\ pc[j] = "getUser" /\ At(log'[j], "getUser", "resolved") # {}
          /\ RemoteFlag = JsBool(FALSE)
          => pc'[j] = "returned" /\ Count(log'[j], "createMember", "request") = 0
     /\ (\A i \in Invocations : ~SomeCallFailed(i)') =>
          Sum([i \in Invocations |-> Count(log'[i], "createMember", "request")],
              Invocations) <= settings']_vars

C8_Witness ==
  \E i, j \in Invocations :
    /\ j > i
    /\ pc[i] = "done" /\ pc[j] = "returned"
    /\ RemoteFlag = JsBool(FALSE)
    /\ Creations(i) = 1
    /\ settings = 1
    /\ \A k \in Invocations : ~SomeCallFailed(k)

(***************************************************************************)
(* C9.  A failure ends the invocation and the callback gets the error of   *)
(* the failing step: a rejected metadata read is followed by no other      *)
(* call; a rejected metadata replace is not followed by a success signal;  *)
(* and whatever call failed, the callback is invoked once, with exactly    *)
(* the error that step raised.                                             *)
(***************************************************************************)
\* the error the last event of a log stands for
Raised(l) ==
  LET e == l[Len(l)] IN
    IF e.phase \in {"rejected", "json rejected"} THEN e.data
    ELSE IF e.call = "fetchToken"
    THEN [name |-> "Error", message |-> "Failed to fetch token"]
    ELSE [name |-> "Error", message |-> "Failed to create workspace member"]

C9_FailureReportsItsError ==
  \A i \in Invocations :
    /\ SomeCallFailed(i) =>
         /\ pc[i] = "failed"
         /\ cbCalls[i] = << Raised(log[i]) >>
    /\ At(log[i], "getUser", "rejected") # {} =>
         Shape(log[i]) = << <<"getUser", "request">>, <<"getUser", "rejected">> >>
    /\ At(log[i], "updateAppMetadata", "rejected") # {} =>
         \A k \in 1..Len(cbCalls[i]) : cbCalls[i][k] # Undefined

C9_Witness ==
  /\ \E i \in Invocations : At(log[i], "getUser", "rejected") # {}
  /\ \E i \in Invocations :
       /\ At(log[i], "updateAppMetadata", "rejected") # {}
       /\ cbCalls[i] = << [name |-> "APIError", message |-> "Too Many Requests"] >>

(***************************************************************************)
(* C10.  Every metadata replace the hook issues carries exactly the object *)
(* {isUserInvite: false, inviteMsg: ""}, whatever the metadata read        *)
(* returned: no key of the metadata read is copied into it.                *)
(***************************************************************************)
C10_ReplacePayloadIsLiteral ==
  \A i \in Invocations :
    \A k \in At(log[i], "updateAppMetadata", "request") :
      /\ DOMAIN log[i][k].data.metadata = {"isUserInvite", "inviteMsg"}
      /\ log[i][k].data.metadata.isUserInvite = [t |-> "boolean", v |-> "false"]
      /\ log[i][k].data.metadata.inviteMsg = [t |-> "string", v |-> ""]

C10_Witness ==
  \E i \in Invocations :
    /\ At(log[i], "updateAppMetadata", "request") # {}
    /\ "plan" \in DOMAIN app_metadata[i]
    /\ "workspaceId" \in DOMAIN app_metadata[i]

(***************************************************************************)
(* C11.  Provided every outbound call is answered, every invocation that   *)
(* was started ends in DONE or FAILED.  It moves along the edges START ->  *)
(* CHECK_INVITE_FLAG -> (DONE | FETCH_TOKEN -> CREATE_MEMBER -> CLEAR_FLAG *)
(* -> DONE) or to FAILED only, in each state before the end it waits for   *)
(* the answer of the call of that state, and once in DONE or FAILED it     *)
(* issues no further call.                                                 *)
(***************************************************************************)
\* the state of the invocation in the specification's state machine; the
\* invocation checks the flag when the metadata read is answered
MachineState(p) ==
  CASE p = "idle" -> "START"
    [] p = "getUser" -> "CHECK_INVITE_FLAG"
    [] p = "_getToken" -> "FETCH_TOKEN"
    [] p = "_createMember" -> "CREATE_MEMBER"
    [] p = "updateAppMetadata" -> "CLEAR_FLAG"
    [] p \in {"returned", "done"} -> "DONE"
    [] p = "failed" -> "FAILED"

MachineEdges ==
  { <<"START", "CHECK_INVITE_FLAG">>,
    <<"CHECK_INVITE_FLAG", "DONE">>,
    <<"CHECK_INVITE_FLAG", "FETCH_TOKEN">>,
    <<"FETCH_TOKEN", "CREATE_MEMBER">>,
    <<"CREATE_MEMBER", "CLEAR_FLAG">>,
    <<"CLEAR_FLAG", "DONE">>,
    <<"CHECK_INVITE_FLAG", "FAILED">>,
    <<"FETCH_TOKEN", "FAILED">>,
    <<"CREATE_MEMBER", "FAILED">>,
    <<"CLEAR_FLAG", "FAILED">> }

\* the call an invocation in that state waits for
CallOf(state) ==
  CASE state = "CHECK_INVITE_FLAG" -> "getUser"
    [] state = "FETCH_TOKEN" -> "fetchToken"
    [] state = "CREATE_MEMBER" -> "createMember"
    [] state = "CLEAR_FLAG" -> "updateAppMetadata"

C11_Edges ==
  \A i \in Invocations :
    LET before == MachineState(pc[i])
        after == MachineState(pc'[i])
    IN /\ before # after => <<before, after>> \in MachineEdges
       /\ before \in {"DONE", "FAILED"} => log'[i] = log[i]
       /\ after \notin {"START", "DONE", "FAILED"} =>
            /\ log'[i][Len(log'[i])].call = CallOf(after)
            /\ log'[i][Len(log'[i])].phase = "request"
       /\ after \in {"DONE", "FAILED"} /\ log'[i] # <<>> =>
            log'[i][Len(log'[i])].phase # "request"

C11_RunsToTheEnd ==
  /\ [][C11_Edges]_vars
  /\ \A i \in Invocations :
       (pc[i] # "idle") ~> (MachineState(pc[i]) \in {"DONE", "FAILED"})

C11_Witness ==
  /\ \E i \in Invocations : pc[i] = "done"
  /\ \E i \in Invocations : pc[i] = "failed" /\ Len(log[i]) > 4
  /\ \A i \in Invocations : Terminated(i)

(***************************************************************************)
(* C12.  In every reachable state, an invocation has issued a member       *)
(* creation only if its own metadata read returned a truthy invite flag    *)
(* and its own token fetch was answered with success before, and it has    *)
(* issued a metadata replace only if its own member creation was answered  *)
(* with success before.                                                    *)
(***************************************************************************)
\* the call of log l was answered with a 2xx status and a body that parsed,
\* before position k
SucceededBefore(l, call, k) ==
  /\ \E r \in At(l, call, "resolved") : r < k /\ l[r].data.status \in 200..299
  /\ \E r \in At(l, call, "json") : r < k

C12_CallsNeedTheirPredecessor ==
  \A i \in Invocations :
    /\ \A k \in At(log[i], "createMember", "request") :
         /\ ReadInvite(i)
         /\ \E r \in At(log[i], "getUser", "resolved") : r < k
         /\ SucceededBefore(log[i], "fetchToken", k)
    /\ \A k \in At(log[i], "updateAppMetadata", "request") :
         SucceededBefore(log[i], "createMember", k)

C12_Witness ==
  /\ \E i \in Invocations : At(log[i], "updateAppMetadata", "request") # {}
  /\ \E i \in Invocations :
       /\ MemberRefused(i)
       /\ At(log[i], "updateAppMetadata", "request") = {}

(***************************************************************************)
(* C13.  For every raw user id x the identifier the hook derives is        *)
(* "auth0|" followed by x, and every use of an identifier in an invocation *)
(* is that one: the id of the metadata read, the userId field of the       *)
(* member-creation body and the id of the metadata replace.  The raw id is *)
(* never sent without the prefix.                                          *)
(***************************************************************************)
C13_DerivedIdEverywhere ==
  \A i \in Invocations :
    /\ \A k \in At(log[i], "getUser", "request") :
         /\ log[i][k].data.id = "auth0|" \o user.id
         /\ log[i][k].data.id # user.id
         /\ Len(log[i][k].data.id) = 6 + Len(user.id)
    /\ \A k \in At(log[i], "createMember", "request") :
         log[i][k].data.body =
           "{\"userId\":\"auth0|" \o user.id \o "\",\"email\":\"" \o user.email
             \o "\",\"fullName\":\"User\"}"
    /\ \A k \in At(log[i], "updateAppMetadata", "request") :
         /\ log[i][k].data.id = "auth0|" \o user.id
         /\ log[i][k].data.id # user.id
         /\ log[i][k].data.id = log[i][1].data.id

C13_Witness ==
  \E i \in Invocations :
    /\ user.id = "abc123"
    /\ At(log[i], "updateAppMetadata", "request") # {}
    /\ log[i][1].data.id = "auth0|abc123"
    /\ CreateRequest(i).body =
         "{\"userId\":\"auth0|abc123\",\"email\":\"a@upstand.fm\",\"fullName\":\"User\"}"

(***************************************************************************)
(* C14.  As claimed: when invocations for a user whose invite flag was set *)
(* once run concurrently and no call fails, at most one member creation is *)
(* issued for that user.                                                   *)
(* Nothing keeps a second invocation from reading the flag before the      *)
(* first one clears it (lines 133-161).                                    *)
(***************************************************************************)
TotalCreations ==
  Sum([i \in Invocations |-> Creations(i)], Invocations)

C14_ConcurrentInvocationsCreateOnce ==
  (settings = 1 /\ \A i \in Invocations : ~SomeCallFailed(i)) =>
    TotalCreations <= 1

(***************************************************************************)
(* C14, amended.  Every invocation issues at most one member creation, and *)
(* only if its own read returned the flag as set, so concurrent            *)
(* invocations issue at most as many member creations as invocations read  *)
(* the flag before it was cleared; the clearing excludes only those that   *)
(* read afterwards: an invocation that reads a cleared flag is a no-op.    *)
(***************************************************************************)
C14_OneCreationPerInviteRead ==
  [][/\ \A i \in Invocations :
          /\ Count(log'[i], "createMember", "request") <= 1
          /\ Count(log'[i], "createMember", "request") = 1 => ReadInvite(i)'
     /\ Sum([i \in Invocations |-> Count(log'[i], "createMember", "request")],
            Invocations)
          <= Cardinality({i \in Invocations : ReadInvite(i)'})
     /\ \A j \in Invocations :
          /\ pc[j] = "getUser" /\ At(log'[j], "getUser", "resolved") # {}
          /\ RemoteFlag \in {JsBool(FALSE), JsStr(""), Undefined}
          => pc'[j] = "returned" /\ Count(log'[j], "createMember", "request") = 0]_vars

C14_Witness ==
  /\ settings = 1
  /\ \A i \in Invocations : ~SomeCallFailed(i)
  /\ \E i, j \in Invocations :
       /\ i # j
       /\ Creations(i) = 1 /\ Creations(j) = 1
       /\ CreateRequest(i).url = CreateRequest(j).url
       /\ CreateRequest(i).body = CreateRequest(j).body

(***************************************************************************)
(* C15.  In every invocation the completion callback is invoked at most    *)
(* once, and never with an error after it was invoked to signal success,   *)
(* also when the host's callback raises while it is invoked for success.   *)
(* cb() is called inside the try block (line 163), so an exception it      *)
(* raises reaches the catch block, which calls cb(err) (line 165).         *)
(***************************************************************************)
C15_CallbackAtMostOnce ==
  \A i \in Invocations :
    /\ Len(cbCalls[i]) <= 1
    /\ \A k, n \in 1..Len(cbCalls[i]) :
         k < n /\ cbCalls[i][k] = Undefined => cbCalls[i][n] = Undefined

(***************************************************************************)
(* C16.  The member creation of an invocation carries the bearer token its *)
(* own token fetch returned and the workspace identifier its own metadata  *)
(* read returned, never those another invocation obtained, and the token   *)
(* an invocation fetched is used for at most one member creation.          *)
(***************************************************************************)
\* the token the token fetch of invocation i returned, and the workspace
\* identifier its metadata read returned
FetchedToken(i) ==
  log[i][CHOOSE k \in At(log[i], "fetchToken", "json") : TRUE].data

ReadWorkspace(i) ==
  LET read == log[i][CHOOSE k \in At(log[i], "getUser", "resolved") : TRUE].data
  IN IF "workspaceId" \in DOMAIN read THEN read.workspaceId
     ELSE [t |-> "undefined", v |-> "undefined"]

C16_OwnTokenAndWorkspace ==
  \A i \in Invocations :
    /\ Count(log[i], "fetchToken", "json") <= 1
    /\ Count(log[i], "createMember", "request") <= 1
    /\ \A k \in At(log[i], "createMember", "request") :
         /\ Count(log[i], "fetchToken", "json") = 1
         /\ log[i][k].data.authorization = "Bearer " \o FetchedToken(i).v
         /\ log[i][k].data.url =
              "https://api.upstand.fm/workspaces/" \o ReadWorkspace(i).v \o "/members"
         /\ \A j \in Invocations :
              j # i /\ At(log[j], "fetchToken", "json") # {} =>
                /\ FetchedToken(j) # FetchedToken(i) =>
                     log[i][k].data.authorization # "Bearer " \o FetchedToken(j).v
                /\ ReadWorkspace(j) # ReadWorkspace(i) =>
                     log[i][k].data.url #
                       "https://api.upstand.fm/workspaces/" \o ReadWorkspace(j).v
                         \o "/members"

C16_Witness ==
  \E i, j \in Invocations :
    /\ i # j
    /\ Creations(i) = 1 /\ Creations(j) = 1
    /\ FetchedToken(i) # FetchedToken(j)
    /\ ReadWorkspace(i) # ReadWorkspace(j)
    /\ CreateRequest(i).authorization = "Bearer t1"
    /\ CreateRequest(j).authorization = "Bearer t2"

====
